---------------------------- MODULE Spec2Model ----------------------------
(***************************************************************************)
(* The two FFI kernels of py-num-bench's Rust implementations:             *)
(*   sieve_rs      (sieve_rs/src/lib.rs)     Sieve of Eratosthenes         *)
(*   trapezoid_rs  (trapezoid_rs/src/lib.rs) trapezoid rule for f(x)=x^2   *)
(* Each behaviour of Spec is one call of one kernel, executed statement by *)
(* statement; the other kernel's variables stay idle.                      *)
(***************************************************************************)
EXTENDS Integers, Sequences, FiniteSets

VARIABLES
    pc,          \* sieve_rs: position in the function body ("idle": no sieve call)
    n,           \* sieve_rs: parameter n: i32
    primes_out,  \* sieve_rs: the caller's buffer behind *mut i32, slots 0..cap-1
    buf0,        \* the buffer's contents when the call was made (never assigned)
    limit,       \* sieve_rs: local limit: usize, <<>> before line 10 has run
    is_prime,    \* sieve_rs: local Vec<bool>, the empty function before line 11
    bound,       \* sieve_rs: upper end of the range of line 13
    p,           \* sieve_rs: outer loop variable
    multiple,    \* sieve_rs: inner loop variable
    i,           \* sieve_rs: collection loop variable
    count,       \* sieve_rs: local count
    ret,         \* sieve_rs: returned i32, <<>> before the return
    writes,      \* history: the buffer indices stored to, in program order
    tpc,         \* trapezoid_rs: position in the function body ("idle": none)
    a,           \* trapezoid_rs: parameter a: f64
    b,           \* trapezoid_rs: parameter b: f64
    tn,          \* trapezoid_rs: parameter n: i32
    un,          \* trapezoid_rs: the shadowing n: usize, <<>> before line 6
    h,           \* trapezoid_rs: local h, <<>> before line 10
    sum,         \* trapezoid_rs: local sum, <<>> before line 11
    ti,          \* trapezoid_rs: loop variable i
    tret,        \* trapezoid_rs: returned f64, <<>> before the return
    visited      \* history: the values of i the loop body ran with, in order

vars == <<pc, n, primes_out, buf0, limit, is_prime, bound, p, multiple, i,
          count, ret, writes, tpc, a, b, tn, un, h, sum, ti, tret, visited>>

sieveVars == <<pc, n, primes_out, buf0, limit, is_prime, bound, p, multiple,
               i, count, ret, writes>>

trapVars == <<tpc, a, b, tn, un, h, sum, ti, tret, visited>>

(***************************************************************************)
(* Bounds of the model.                                                    *)
(***************************************************************************)
MinN == 3         \* negative n: -MinN..-1 and i32::MIN are passed to both kernels
MaxN == 26        \* sieve_rs is called with n <= MaxN
ExtraCap == 1     \* the caller's buffer has up to ExtraCap slots beyond the minimum
MaxTrapN == 4     \* trapezoid_rs is called with n <= MaxTrapN
MaxIter == 3      \* loop iterations followed when n wrapped to about 2^64
MaxHalf == 2      \* a and b are the multiples of 1/2 of magnitude <= MaxHalf / 2
SqrtBack == 12    \* SqrtSpec: the roots 46340 - j, j <= SqrtBack, are sampled

(***************************************************************************)
(* Machine integers.  i32 is a TLA+ integer in -2^31 .. 2^31-1.  A usize   *)
(* holds 64 bits; the values that occur are the casts of i32 values and    *)
(* small counters, so a usize is the record [hi, lo] standing for          *)
(*     hi * (2^64 - 2^31) + lo,     hi \in {0,1}, lo \in 0 .. 2^31-1.      *)
(***************************************************************************)
I32Max == 2147483647

I32Min == (-I32Max) - 1

\* `n as usize` (sieve line 10, trapezoid line 6): sign extension, then the
\* same bits read unsigned, i.e. n mod 2^64.
AsUsize(v) ==
    IF v >= 0 THEN [hi |-> 0, lo |-> v]
              ELSE [hi |-> 1, lo |-> (v + I32Max) + 1]

\* A small non-negative counter as a usize.
USmall(v) == [hi |-> 0, lo |-> v]

\* Unsigned comparisons.
ULt(u, v) == u.hi < v.hi \/ (u.hi = v.hi /\ u.lo < v.lo)

ULe(u, v) == u.hi < v.hi \/ (u.hi = v.hi /\ u.lo <= v.lo)

\* `x as i32` of a usize: the low 32 bits read signed.
AsI32(u) == IF u.hi = 0 THEN u.lo ELSE (u.lo - I32Max) - 1


(***************************************************************************)
(* sieve_rs, line 13: ((limit as f64).sqrt() as usize).                    *)
(* limit < 2^31 converts to f64 exactly.  IEEE-754 sqrt returns the f64    *)
(* nearest to the real root, and `as usize` truncates it.  With            *)
(* k = floor(sqrt v) and v not a square, the root lies strictly between k  *)
(* and k+1, where f64 values are 2^-s apart, s = (MantBits-1) - floor(log2 *)
(* k).  The nearest f64 is k+1 exactly when root > k+1 - 2^-(s+1), that is *)
(* when ((k+1)^2 - v) * 2^s <= k; otherwise it is below k+1 and truncates  *)
(* to k.  A square v has the exact root k.                                 *)
(***************************************************************************)
MantBits == 53    \* significand precision of f64

RECURSIVE RootSearch(_, _, _)
RootSearch(v, lo, hi) ==
    IF lo >= hi THEN lo
    ELSE LET mid == hi - ((hi - lo) \div 2)
         IN  IF mid <= v \div mid THEN RootSearch(v, mid, hi)
                                  ELSE RootSearch(v, lo, mid - 1)

\* The integer part of the real square root of v.
IntRoot(v) == RootSearch(v, 0, v)

RECURSIVE Log2Floor(_)
Log2Floor(k) == IF k <= 1 THEN 0 ELSE 1 + Log2Floor(k \div 2)

\* d * 2^s <= k, without forming d * 2^s.
RECURSIVE ShlLe(_, _, _)
ShlLe(d, s, k) ==
    IF d > k THEN FALSE
    ELSE IF s <= 0 THEN TRUE
    ELSE ShlLe(2 * d, s - 1, k)

\* (v as f64).sqrt() as usize, for 0 <= v < 2^31.
SqrtF64Trunc(v) ==
    LET k == IntRoot(v)
        d == ((2 * k) + 1) - (v - (k * k))
        s == (MantBits - 1) - Log2Floor(k)
    IN  IF k * k = v THEN k
        ELSE IF ShlLe(d, s, k) THEN k + 1
        ELSE k

\* The inclusive upper end of `2..=((limit as f64).sqrt() as usize)`.
SqrtBoundExclusive(lim) == SqrtF64Trunc(lim.lo) - 1

SqrtBound(lim) == SqrtF64Trunc(lim.lo)

(***************************************************************************)
(* sieve_rs, statement by statement.                                       *)
(***************************************************************************)
NoTable == [j \in {} |-> TRUE]

\* line 7: `if n < 2`
BelowTwoOffByOne(v) == v < 1

BelowTwo(v) == v < 2

\* line 11: vec![true; limit + 1]
TableInitZeroOneFalse(lim) == [j \in 0..lim.lo |-> j >= 2]

TableInit(lim) == [j \in 0..lim.lo |-> TRUE]

\* line 15: the first element of (p * p..=limit).step_by(p)
InnerStartAtP(q) == q

InnerStartAtTwoP(q) == 2 * q

InnerStart(q) == q * q

\* line 23: `2..=limit` still has the element j
CollectMoreExclusive(j, lim) == ULt(USmall(j), lim)

CollectMore(j, lim) == ULe(USmall(j), lim)

\* line 25: primes_out.add(count)
SlotSkipFirst(c) == c + 1

Slot(c) == c

\* Entry, lines 7-9: n < 2 returns 0 before anything else is evaluated.
SieveCheck ==
    /\ pc = "check"
    /\ IF BelowTwo(n)
       THEN /\ ret' = <<0>>
            /\ pc' = "done"
       ELSE /\ pc' = "cast"
            /\ UNCHANGED ret
    /\ UNCHANGED <<n, primes_out, buf0, limit, is_prime, bound, p, multiple,
                   i, count, writes>>
    /\ UNCHANGED trapVars

\* line 10: let limit = n as usize
SieveCast ==
    /\ pc = "cast"
    /\ limit' = <<AsUsize(n)>>
    /\ pc' = "alloc"
    /\ UNCHANGED <<n, primes_out, buf0, is_prime, bound, p, multiple, i,
                   count, ret, writes>>
    /\ UNCHANGED trapVars

\* line 11, the allocation succeeds.
SieveAlloc ==
    /\ pc = "alloc"
    /\ is_prime' = TableInit(limit[1])
    /\ pc' = "bound"
    /\ UNCHANGED <<n, primes_out, buf0, limit, bound, p, multiple, i, count,
                   ret, writes>>
    /\ UNCHANGED trapVars

\* line 11, the allocator has no memory: vec! calls handle_alloc_error, which
\* aborts the process; nothing after line 11 runs.
SieveAllocFail ==
    /\ pc = "alloc"
    /\ pc' = "aborted"
    /\ UNCHANGED <<n, primes_out, buf0, limit, is_prime, bound, p, multiple,
                   i, count, ret, writes>>
    /\ UNCHANGED trapVars

\* line 13: the range of the outer loop is evaluated once.
SieveBound ==
    /\ pc = "bound"
    /\ bound' = SqrtBound(limit[1])
    /\ p' = 2
    /\ pc' = "outer"
    /\ UNCHANGED <<n, primes_out, buf0, limit, is_prime, multiple, i, count,
                   ret, writes>>
    /\ UNCHANGED trapVars

\* lines 13-15 and 21: the head of the outer loop.
SieveOuter ==
    /\ pc = "outer"
    /\ IF p <= bound
       THEN IF is_prime[p]
            THEN /\ multiple' = InnerStart(p)
                 /\ pc' = "inner"
                 /\ UNCHANGED <<p, i, count>>
            ELSE /\ p' = p + 1
                 /\ UNCHANGED <<pc, multiple, i, count>>
       ELSE /\ count' = 0
            /\ i' = 2
            /\ pc' = "collect"
            /\ UNCHANGED <<p, multiple>>
    /\ UNCHANGED <<n, primes_out, buf0, limit, is_prime, bound, ret, writes>>
    /\ UNCHANGED trapVars

\* lines 15-17: one step of the inner loop.
SieveInner ==
    /\ pc = "inner"
    /\ IF ULe(USmall(multiple), limit[1])
       THEN /\ is_prime' = [is_prime EXCEPT ![multiple] = FALSE]
            /\ multiple' = multiple + p
            /\ UNCHANGED <<p, pc>>
       ELSE /\ p' = p + 1
            /\ pc' = "outer"
            /\ UNCHANGED <<is_prime, multiple>>
    /\ UNCHANGED <<n, primes_out, buf0, limit, bound, i, count, ret, writes>>
    /\ UNCHANGED trapVars

\* lines 23-28: one step of the collection loop.
SieveCollect ==
    /\ pc = "collect"
    /\ CollectMore(i, limit[1])
    /\ IF is_prime[i]
       THEN /\ primes_out' = [primes_out EXCEPT ![Slot(count)] = AsI32(USmall(i))]
            /\ writes' = Append(writes, Slot(count))
            /\ count' = count + 1
       ELSE UNCHANGED <<primes_out, writes, count>>
    /\ i' = i + 1
    /\ UNCHANGED <<pc, n, buf0, limit, is_prime, bound, p, multiple, ret>>
    /\ UNCHANGED trapVars

\* line 30: count as i32
SieveReturn ==
    /\ pc = "collect"
    /\ ~CollectMore(i, limit[1])
    /\ ret' = <<AsI32(USmall(count))>>
    /\ pc' = "done"
    /\ UNCHANGED <<n, primes_out, buf0, limit, is_prime, bound, p, multiple,
                   i, count, writes>>
    /\ UNCHANGED trapVars

(***************************************************************************)
(* f64.  A value is a record [k, m, x]: k = "fin" is the finite number     *)
(* m * 2^x with m odd (or m = 0, x = 0); "pinf", "ninf" and "nan" are the  *)
(* IEEE-754 specials; "unk" is an f64 the model does not track (a rounded  *)
(* result, or one whose significand needs more than 30 bits).  Every       *)
(* operation that returns a "fin" value returns the exact real result,     *)
(* which IEEE-754 arithmetic returns too whenever it is representable.     *)
(* The sign of zero is not tracked (0.0 == -0.0).                          *)
(***************************************************************************)
TrackedMax == 1073741823    \* 2^30 - 1: significands tracked by the model

FNaN == [k |-> "nan", m |-> 0, x |-> 0]

FUnk == [k |-> "unk", m |-> 0, x |-> 0]

FPInf == [k |-> "pinf", m |-> 0, x |-> 0]

FNInf == [k |-> "ninf", m |-> 0, x |-> 0]

FZero == [k |-> "fin", m |-> 0, x |-> 0]

FHalf == [k |-> "fin", m |-> 1, x |-> -1]

Abs(v) == IF v < 0 THEN -v ELSE v

RECURSIVE Pow2(_)
Pow2(e) == IF e <= 0 THEN 1 ELSE 2 * Pow2(e - 1)

FInf(sign) == IF sign >= 0 THEN FPInf ELSE FNInf

\* The finite value m * 2^x as an f64: above the largest finite f64 it is an
\* infinity, below the normal range it is a rounded value.
RECURSIVE FNorm(_, _)
FNorm(m, x) ==
    IF m = 0 THEN FZero
    ELSE IF m % 2 = 0 THEN FNorm(m \div 2, x + 1)
    ELSE IF Log2Floor(Abs(m)) + x >= 1024 THEN FInf(m)
    ELSE IF x < -1022 THEN FUnk
    ELSE [k |-> "fin", m |-> m, x |-> x]

FSign(u) == IF u.k = "ninf" \/ (u.k = "fin" /\ u.m < 0) THEN -1 ELSE 1

FIsInf(u) == u.k \in {"pinf", "ninf"}

FNeg(u) ==
    CASE u.k = "pinf" -> FNInf
      [] u.k = "ninf" -> FPInf
      [] u.k = "fin"  -> [u EXCEPT !.m = -u.m]
      [] OTHER        -> u

FMul(u, v) ==
    IF u.k = "nan" \/ v.k = "nan" THEN FNaN
    ELSE IF u.k = "unk" \/ v.k = "unk" THEN FUnk
    ELSE IF FIsInf(u) \/ FIsInf(v)
         THEN IF u = FZero \/ v = FZero THEN FNaN
              ELSE FInf(FSign(u) * FSign(v))
    ELSE IF u.m = 0 \/ v.m = 0 THEN FZero
    ELSE IF Abs(u.m) > TrackedMax \div Abs(v.m) THEN FUnk
    ELSE FNorm(u.m * v.m, u.x + v.x)

FAdd(u, v) ==
    IF u.k = "nan" \/ v.k = "nan" THEN FNaN
    ELSE IF u.k = "unk" \/ v.k = "unk" THEN FUnk
    ELSE IF FIsInf(u) /\ FIsInf(v) THEN (IF u = v THEN u ELSE FNaN)
    ELSE IF FIsInf(u) THEN u
    ELSE IF FIsInf(v) THEN v
    ELSE IF u.m = 0 THEN v
    ELSE IF v.m = 0 THEN u
    ELSE LET lo == IF u.x <= v.x THEN u ELSE v
             up == IF u.x <= v.x THEN v ELSE u
             gap == up.x - lo.x
         IN  IF gap > 29 THEN FUnk
             ELSE IF Abs(up.m) > (TrackedMax \div 2) \div Pow2(gap) THEN FUnk
             ELSE IF Abs(lo.m) > TrackedMax \div 2 THEN FUnk
             ELSE FNorm((up.m * Pow2(gap)) + lo.m, lo.x)

FSub(u, v) == FAdd(u, FNeg(v))

FDiv(u, v) ==
    IF u.k = "nan" \/ v.k = "nan" THEN FNaN
    ELSE IF u.k = "unk" \/ v.k = "unk" THEN FUnk
    ELSE IF FIsInf(u) THEN (IF FIsInf(v) THEN FNaN
                            ELSE FInf(FSign(u) * FSign(v)))
    ELSE IF FIsInf(v) THEN FZero
    ELSE IF v.m = 0 THEN (IF u.m = 0 THEN FNaN ELSE FInf(FSign(u)))
    ELSE IF u.m = 0 THEN FZero
    ELSE IF Abs(u.m) % Abs(v.m) # 0 THEN FUnk
    ELSE FNorm((FSign(u) * FSign(v)) * (Abs(u.m) \div Abs(v.m)), u.x - v.x)

\* `u as f64` of a usize.  Below 2^31 the conversion is exact.  The wrapped
\* values are 2^64 - t with t = 2^31 - lo; f64 values there are 2048 apart, so
\* 2^64 - t rounds to 2^64 for t <= 1024 (t = 1024 is a tie, to the even 2^64).
UsizeToF64(u) ==
    IF u.hi = 0 THEN FNorm(u.lo, 0)
    ELSE IF I32Max - u.lo < 1024 THEN FNorm(1, 64)
    ELSE FUnk

(***************************************************************************)
(* trapezoid_rs, statement by statement.                                   *)
(***************************************************************************)
\* line 7: `if n == 0`, n the usize
IsZeroNever(u) == ULt(u, USmall(0))

IsZero(u) == u = USmall(0)

\* line 12: `1..n` still has the element j
LoopMoreInclusive(j, u) == ULe(USmall(j), u)

LoopMore(j, u) == ULt(USmall(j), u)

\* line 12: the first element of `1..n`
LoopFirst == 1

\* line 11: 0.5 * (a * a + b * b)
Seed(u, v) == FMul(FHalf, FAdd(FMul(u, u), FMul(v, v)))

\* line 13: a + i as f64 * h
Node(u, j, w) == FAdd(u, FMul(UsizeToF64(USmall(j)), w))

\* line 6: let n = n as usize
TrapCast ==
    /\ tpc = "cast"
    /\ un' = <<AsUsize(tn)>>
    /\ tpc' = "check"
    /\ UNCHANGED <<a, b, tn, h, sum, ti, tret, visited>>
    /\ UNCHANGED sieveVars

\* lines 7-9
TrapCheck ==
    /\ tpc = "check"
    /\ IF IsZero(un[1])
       THEN /\ tret' = <<FZero>>
            /\ tpc' = "done"
       ELSE /\ tpc' = "width"
            /\ UNCHANGED tret
    /\ UNCHANGED <<a, b, tn, un, h, sum, ti, visited>>
    /\ UNCHANGED sieveVars

\* line 10: let h = (b - a) / n as f64
TrapWidth ==
    /\ tpc = "width"
    /\ h' = <<FDiv(FSub(b, a), UsizeToF64(un[1]))>>
    /\ tpc' = "seed"
    /\ UNCHANGED <<a, b, tn, un, sum, ti, tret, visited>>
    /\ UNCHANGED sieveVars

\* line 11, and the start of the range of line 12
TrapSeed ==
    /\ tpc = "seed"
    /\ sum' = <<Seed(a, b)>>
    /\ ti' = LoopFirst
    /\ tpc' = "loop"
    /\ UNCHANGED <<a, b, tn, un, h, tret, visited>>
    /\ UNCHANGED sieveVars

\* lines 12-15: one iteration.  A wrapped n asks for about 2^64 iterations,
\* of which the first MaxIter are followed.
TrapLoop ==
    /\ tpc = "loop"
    /\ LoopMore(ti, un[1])
    /\ un[1].hi = 1 => ti <= MaxIter
    /\ LET x == Node(a, ti, h[1])
       IN  sum' = <<FAdd(sum[1], FMul(x, x))>>
    /\ visited' = Append(visited, ti)
    /\ ti' = ti + 1
    /\ UNCHANGED <<tpc, a, b, tn, un, h, tret>>
    /\ UNCHANGED sieveVars

\* line 16: sum * h
TrapReturn ==
    /\ tpc = "loop"
    /\ ~LoopMore(ti, un[1])
    /\ tret' = <<FMul(sum[1], h[1])>>
    /\ tpc' = "done"
    /\ UNCHANGED <<a, b, tn, un, h, sum, ti, visited>>
    /\ UNCHANGED sieveVars

(***************************************************************************)
(* The calls.                                                              *)
(***************************************************************************)
Fills == {0, -1}

\* The caller's side of the contract of sieve_rs: for n >= 2 the buffer has
\* at least n + 1 slots.
MinCap(v) == IF v >= 2 THEN v + 1 ELSE 0

\* Arguments a and b: the multiples of 1/2 up to MaxHalf / 2 in magnitude;
\* 2^511, whose square 2^1022 is finite and so is twice it, but not four
\* times it; 3 * 2^510, whose square is finite but not twice it; +infinity.
FloatArgs ==
    {FNorm(j, -1) : j \in (-MaxHalf)..MaxHalf}
        \cup {FNorm(1, 511), FNorm(3, 510), FPInf}

SieveIdle ==
    /\ pc = "idle"
    /\ n = 0
    /\ primes_out = <<>>
    /\ buf0 = <<>>

SieveLocalsInit ==
    /\ limit = <<>>
    /\ is_prime = NoTable
    /\ bound = 0
    /\ p = 0
    /\ multiple = 0
    /\ i = 0
    /\ count = 0
    /\ ret = <<>>
    /\ writes = <<>>

TrapLocalsInit ==
    /\ un = <<>>
    /\ h = <<>>
    /\ sum = <<>>
    /\ ti = 0
    /\ tret = <<>>
    /\ visited = <<>>

TrapIdle ==
    /\ tpc = "idle"
    /\ a = FZero
    /\ b = FZero
    /\ tn = 0

SieveCall ==
    /\ pc = "check"
    /\ n \in ((-MinN)..MaxN) \cup {I32Min}
    /\ \E cap \in MinCap(n)..(MinCap(n) + ExtraCap) :
       \E fill \in Fills :
          primes_out = [j \in 0..(cap - 1) |-> fill]
    /\ buf0 = primes_out

TrapCall ==
    /\ tpc = "cast"
    /\ a \in FloatArgs
    /\ b \in FloatArgs
    /\ tn \in ((-MinN)..MaxTrapN) \cup {I32Min}

Init ==
    /\ SieveLocalsInit
    /\ TrapLocalsInit
    /\ \/ SieveCall /\ TrapIdle
       \/ SieveIdle /\ TrapCall

SieveStep ==
    \/ SieveCheck
    \/ SieveCast
    \/ SieveAlloc
    \/ SieveAllocFail
    \/ SieveBound
    \/ SieveOuter
    \/ SieveInner
    \/ SieveCollect
    \/ SieveReturn

TrapStep ==
    \/ TrapCast
    \/ TrapCheck
    \/ TrapWidth
    \/ TrapSeed
    \/ TrapLoop
    \/ TrapReturn

Next == SieveStep \/ TrapStep

Spec == Init /\ [][Next]_vars

\* A sieve_rs call runs on the caller's thread, without suspension, to its
\* return or to the abort: an enabled statement of it is eventually executed.
FairSpec == Spec /\ WF_vars(SieveStep)

(***************************************************************************)
(* The bound of line 13 over the whole range of i32: SqrtSpec applies      *)
(* lines 10 and 13 to sampled n, among them every n up to MaxN, the        *)
(* squares of the largest roots and of the powers of two with their        *)
(* neighbours, and 2^31 - 1.  (The table of line 11 has n + 1 entries and  *)
(* is followed entry by entry in Spec only.)                               *)
(***************************************************************************)
SqrtRoots ==
    {Pow2(j) : j \in 2..15} \cup {IntRoot(I32Max) - j : j \in 0..SqrtBack}

SqrtSamples ==
    (2..MaxN) \cup {I32Max}
        \cup {(k * k) + d : k \in SqrtRoots, d \in {-1, 0, 1}}

SqrtInit ==
    /\ SieveLocalsInit
    /\ TrapLocalsInit
    /\ TrapIdle
    /\ pc = "sqrt_cast"
    /\ n \in SqrtSamples
    /\ primes_out = <<>>
    /\ buf0 = <<>>

\* line 10
SqrtCast ==
    /\ pc = "sqrt_cast"
    /\ limit' = <<AsUsize(n)>>
    /\ pc' = "sqrt_range"
    /\ UNCHANGED <<n, primes_out, buf0, is_prime, bound, p, multiple, i,
                   count, ret, writes>>
    /\ UNCHANGED trapVars

\* line 13
SqrtRange ==
    /\ pc = "sqrt_range"
    /\ bound' = SqrtBound(limit[1])
    /\ p' = 2
    /\ pc' = "sqrt_done"
    /\ UNCHANGED <<n, primes_out, buf0, limit, is_prime, multiple, i, count,
                   ret, writes>>
    /\ UNCHANGED trapVars

SqrtNext ==
    \/ SqrtCast
    \/ SqrtRange

SqrtSpec == SqrtInit /\ [][SqrtNext]_vars

(***************************************************************************)
(* Properties.                                                             *)
(***************************************************************************)
IsPrimeNum(j) == j >= 2 /\ \A d \in 2..(j - 1) : j % d # 0

PrimesUpTo(v) == {j \in 2..v : IsPrimeNum(j)}

Allocated == is_prime # NoTable

MarkingDone == pc \in {"collect", "done"}

\* C1: when sieve_rs(n, buf) with n >= 2 has returned c, c is the number of
\* primes <= n and buf[0..c-1] is strictly increasing and holds exactly the
\* primes of [2, n].
C1_SievePrimes ==
    (pc = "done" /\ n >= 2) =>
        LET c == ret[1]
        IN  /\ c = Cardinality(PrimesUpTo(n))
            /\ \A j \in 0..(c - 2) : primes_out[j] < primes_out[j + 1]
            /\ {primes_out[j] : j \in 0..(c - 1)} = PrimesUpTo(n)

C1_Witness ==
    /\ pc = "done"
    /\ n >= 9
    /\ ret = <<4>>
    /\ primes_out[3] = 7

\* C2: a call with n < 2 (negative n included) only ever returns 0: it
\* stores to no slot, allocates no table and never casts n to usize.
C2_BelowTwo ==
    (pc # "idle" /\ n < 2) =>
        /\ pc \in {"check", "done"}
        /\ primes_out = buf0
        /\ writes = <<>>
        /\ is_prime = NoTable
        /\ limit = <<>>
        /\ pc = "done" => ret = <<0>>

C2_Witness ==
    /\ pc = "done"
    /\ n < 0
    /\ ret = <<0>>
    /\ DOMAIN primes_out # {}

\* C3: in a call with n >= 2 the stores go to slots 0, 1, ..., count-1 in that
\* order, once each, all inside the buffer; every slot from count on keeps
\* its pre-call value; the returned c is count, and c <= n - 1.
C3_Frame ==
    (pc # "idle" /\ n >= 2) =>
        /\ writes = [j \in 1..count |-> j - 1]
        /\ \A j \in 1..Len(writes) : writes[j] \in DOMAIN primes_out
        /\ \A j \in DOMAIN primes_out : j >= count => primes_out[j] = buf0[j]
        /\ count <= n - 1
        /\ pc = "done" => ret = <<count>>

C3_Witness ==
    /\ pc = "done"
    /\ n >= 2
    /\ writes = <<0, 1, 2>>
    /\ \E j \in DOMAIN primes_out : j >= ret[1] /\ primes_out[j] = -1

\* C4: a call of trapezoid_rs with negative n is treated like n = 0: no
\* width is computed, the loop body never runs and the result is 0.0.
C4_NegativeCount ==
    (tpc # "idle" /\ tn < 0) =>
        /\ tpc \in {"cast", "check", "done"}
        /\ h = <<>>
        /\ visited = <<>>
        /\ tpc = "done" => tret = <<FZero>>

\* C5: trapezoid_rs(a, b, 0) returns 0.0 for every a and b, and the division
\* of line 10 is never evaluated.
C5_ZeroCount ==
    (tpc # "idle" /\ tn = 0) =>
        /\ tpc \in {"cast", "check", "done"}
        /\ h = <<>>
        /\ sum = <<>>
        /\ visited = <<>>
        /\ tpc = "done" => tret = <<FZero>>

C5_Witness ==
    /\ tpc = "done"
    /\ tn = 0
    /\ a = FPInf
    /\ b = FNorm(1, 0)
    /\ tret = <<FZero>>

\* The trapezoid sum as the specification writes it: h = (b - a) / n, the
\* endpoints at half weight first, then the nodes 1..j in increasing order.
RefWidth == FDiv(FSub(b, a), FNorm(tn, 0))

RECURSIVE RefSum(_)
RefSum(j) ==
    IF j <= 0 THEN FMul(FHalf, FAdd(FMul(a, a), FMul(b, b)))
    ELSE LET x == FAdd(a, FMul(FNorm(j, 0), RefWidth))
         IN  FAdd(RefSum(j - 1), FMul(x, x))

C6_Structure ==
    /\ visited = [j \in 1..(tn - 1) |-> j]
    /\ tret = <<FMul(RefSum(tn - 1), RefWidth)>>

C7_Safety ==
    /\ pc \in {"check", "cast", "alloc", "bound", "outer", "inner", "aborted"}
          => (primes_out = buf0 /\ writes = <<>>)
    /\ writes # <<>> =>
          /\ MarkingDone
          /\ \A j \in 2..n : is_prime[j] <=> IsPrimeNum(j)

C7_Finished ==
    /\ pc = "done"
    /\ ret = <<Cardinality(PrimesUpTo(n))>>
    /\ {primes_out[j] : j \in 0..(ret[1] - 1)} = PrimesUpTo(n)

\* C7: no slot is stored to before the allocation and the whole marking pass
\* are over, so a call that dies in the allocation leaves the buffer as it
\* was; and a call that has stored to a slot goes on to store every prime
\* and to return.
C7_Atomic == [](C7_Safety) /\ ((writes # <<>>) ~> C7_Finished)

C7_Witness ==
    /\ pc = "aborted"
    /\ n >= 2
    /\ limit # <<>>
    /\ primes_out = buf0

\* C8: for n in [2, 2^31 - 1] the bound of line 13 is not below the integer
\* square root of n, (bound + 1)^2 > n, so every p with p * p <= n is in
\* 2..=bound; and bound^2 <= n, so p * p stays below 2^31 <= usize::MAX.
C8_SqrtBound ==
    pc = "sqrt_done" =>
        /\ bound >= 1
        /\ bound + 1 > n \div (bound + 1)
        /\ bound <= n \div bound

C8_Witness ==
    /\ pc = "sqrt_done"
    /\ n = I32Max
    /\ bound = IntRoot(I32Max)

\* C9 as claimed: the table has n + 1 entries, those at 0 and 1 are false
\* from the allocation on, and at the end table[i] holds iff i is prime for
\* every i in 0..n.
C9_Original ==
    (n >= 2 /\ Allocated) =>
        /\ DOMAIN is_prime = 0..n
        /\ ~is_prime[0]
        /\ ~is_prime[1]
        /\ pc = "done" => \A j \in 0..n : is_prime[j] <=> IsPrimeNum(j)

\* C9 as amended: the table has n + 1 entries; those at 0 and 1 are
\* initialized true and never written, so they are true throughout; once the
\* marking pass is over table[i] holds iff i is prime for every i in 2..n.
C9_Table ==
    (n >= 2 /\ Allocated) =>
        /\ DOMAIN is_prime = 0..n
        /\ is_prime[0]
        /\ is_prime[1]
        /\ MarkingDone => \A j \in 2..n : is_prime[j] <=> IsPrimeNum(j)

C9_Witness ==
    /\ pc = "done"
    /\ n >= 4
    /\ is_prime[0]
    /\ is_prime[1]
    /\ ~is_prime[4]

C10_State ==
    /\ pc = "inner" =>
          /\ is_prime[p]
          /\ p * p <= multiple
          /\ multiple % p = 0
    /\ Allocated => \A j \in 2..n : IsPrimeNum(j) => is_prime[j]
    /\ MarkingDone => \A j \in 2..n : ~IsPrimeNum(j) => ~is_prime[j]

C10_Step ==
    (Allocated /\ is_prime' # is_prime) =>
        /\ pc = "inner"
        /\ is_prime[p]
        /\ p * p <= multiple
        /\ multiple % p = 0
        /\ multiple <= n
        /\ is_prime' = [is_prime EXCEPT ![multiple] = FALSE]

\* C10: the inner loop runs for p only while table[p] is true, and it clears
\* only the indices p*p, p*p + p, ... that are <= n; so no prime index of
\* [2, n] is ever false, and once the pass is over every composite index of
\* [2, n] is false.
C10_Marking == [](C10_State) /\ [][C10_Step]_vars

C10_Witness ==
    /\ pc = "inner"
    /\ p = 3
    /\ multiple = 12
    /\ ~is_prime[9]

=============================================================================
